---- MODULE Spec2Model ----
(***************************************************************************)
(* A model of the SharePoint/OneDrive connector SharepointApp              *)
(* (src/src/universal_mcp_sharepoint/app.py): the lazily created, cached   *)
(* GraphClient session, the six tool operations, and the remote drive the  *)
(* operations talk to.                                                     *)
(*                                                                         *)
(* Python strings are sequences of code points (integers) and byte strings *)
(* are sequences of 0..255, so that lower(), endswith(), split(), UTF-8    *)
(* and base64 are computed rather than assumed.  None is <<-1>> where a    *)
(* string is expected and "None" where a token or identifier is expected.  *)
(***************************************************************************)
EXTENDS Integers, Sequences, FiniteSets, TLC

VARIABLES
    integration,   \* self.integration: TRUE when an Integration was passed
    store,         \* what integration.get_credentials() returns right now
    _client,       \* self._client: the cached session handle
    _site_url,     \* self._site_url
    drive,         \* the remote drive: items in the order the service lists them
    ret,           \* outcome of the last operation call (return value or raised error)
    reqs,          \* remote requests issued by the last operation call, in order
    constructed,   \* history: number of GraphClient(...) constructions so far
    createdWith,   \* history: credentials read by the call that built the session
    made,          \* history: <<parent, name>> of folders created since the last deletion
    gone,          \* history: paths deleted since the last upload
    sent           \* history: path -> text of the last upload, since the last deletion

vars == <<integration, store, _client, _site_url, drive, ret, reqs,
          constructed, createdWith, made, gone, sent>>

-----------------------------------------------------------------------------
(* Bounds of the model *)

MaxItems == 2

MaxLen == 2

-----------------------------------------------------------------------------
(* Python values *)

None == <<-1>>

Truthy(s) == s # None /\ s # <<>>

Range(s) == {s[i] : i \in 1..Len(s)}

NoClient == [kind |-> "None"]

InjectedClient == [kind |-> "Injected"]

NoError == [type |-> "None", msg |-> "None"]

NoCredentials == [exists |-> FALSE, access_token |-> "None", refresh_token |-> "None"]

Credentials(at, rt) == [exists |-> TRUE, access_token |-> at, refresh_token |-> rt]

\* str.lower() on one code point: A-Z and the Latin-1 capitals have a lower case
LowerChar(c) ==
    IF c >= 65 /\ c <= 90 THEN c + 32
    ELSE IF c >= 192 /\ c <= 222 /\ c # 215 THEN c + 32
    ELSE c

lower(s) == [i \in 1..Len(s) |-> LowerChar(s[i])]

endswith(s, suffix) ==
    /\ Len(suffix) <= Len(s)
    /\ SubSeq(s, Len(s) - Len(suffix) + 1, Len(s)) = suffix

\* position of the last "/" in s, 0 when there is none
LastSlash(s) ==
    IF \E i \in 1..Len(s) : s[i] = 47
    THEN CHOOSE i \in 1..Len(s) : s[i] = 47 /\ \A j \in (i+1)..Len(s) : s[j] # 47
    ELSE 0

\* s.split("/")[-1]
LastSegment(s) == SubSeq(s, LastSlash(s) + 1, Len(s))

\* everything before the last "/" (the folder a path lies in; "" for the root)
ParentPath(s) == SubSeq(s, 1, LastSlash(s) - 1)

JoinPath(parent, name) == IF parent = <<>> THEN name ELSE parent \o <<47>> \o name

-----------------------------------------------------------------------------
(* Text and byte conversions *)

Utf8EncodeChar(c) ==
    IF c < 128 THEN <<c>>
    ELSE IF c < 2048 THEN <<192 + (c \div 64), 128 + (c % 64)>>
    ELSE IF c < 65536
         THEN <<224 + (c \div 4096), 128 + ((c \div 64) % 64), 128 + (c % 64)>>
    ELSE <<240 + (c \div 262144), 128 + ((c \div 4096) % 64),
           128 + ((c \div 64) % 64), 128 + (c % 64)>>

RECURSIVE encode_utf8(_)
\* str -> bytes, as the transport sends the text of an upload
encode_utf8(s) ==
    IF s = <<>> THEN <<>> ELSE Utf8EncodeChar(Head(s)) \o encode_utf8(Tail(s))

IsCont(b, i) == i <= Len(b) /\ b[i] >= 128 /\ b[i] <= 191

\* number of bytes of the well-formed UTF-8 sequence at the head of b, 0 when ill-formed
Utf8Width(b) ==
    LET b1 == b[1] IN
    IF b1 < 128 THEN 1
    ELSE IF b1 >= 194 /\ b1 <= 223 THEN (IF IsCont(b, 2) THEN 2 ELSE 0)
    ELSE IF b1 >= 224 /\ b1 <= 239
         THEN (IF /\ IsCont(b, 2) /\ IsCont(b, 3)
                  /\ (b1 = 224 => b[2] >= 160)
                  /\ (b1 = 237 => b[2] <= 159)
               THEN 3 ELSE 0)
    ELSE IF b1 >= 240 /\ b1 <= 244
         THEN (IF /\ IsCont(b, 2) /\ IsCont(b, 3) /\ IsCont(b, 4)
                  /\ (b1 = 240 => b[2] >= 144)
                  /\ (b1 = 244 => b[2] <= 143)
               THEN 4 ELSE 0)
    ELSE 0

Utf8CodePoint(b, w) ==
    IF w = 1 THEN b[1]
    ELSE IF w = 2 THEN (b[1] - 192) * 64 + (b[2] - 128)
    ELSE IF w = 3 THEN (b[1] - 224) * 4096 + (b[2] - 128) * 64 + (b[3] - 128)
    ELSE (b[1] - 240) * 262144 + (b[2] - 128) * 4096 + (b[3] - 128) * 64 + (b[4] - 128)

RECURSIVE decode_utf8(_)
\* bytes.decode('utf-8'): [ok, text]; ok is FALSE where Python raises UnicodeDecodeError
decode_utf8(b) ==
    IF b = <<>> THEN [ok |-> TRUE, text |-> <<>>]
    ELSE LET w == Utf8Width(b) IN
         IF w = 0 THEN [ok |-> FALSE, text |-> <<>>]
         ELSE LET rest == decode_utf8(SubSeq(b, w + 1, Len(b))) IN
              [ok |-> rest.ok,
               text |-> IF rest.ok THEN <<Utf8CodePoint(b, w)>> \o rest.text ELSE <<>>]

\* the base64 alphabet: A-Z a-z 0-9 + /
B64Char(i) ==
    IF i < 26 THEN 65 + i
    ELSE IF i < 52 THEN 97 + (i - 26)
    ELSE IF i < 62 THEN 48 + (i - 52)
    ELSE IF i = 62 THEN 43
    ELSE 47

RECURSIVE b64encode(_)
\* base64.b64encode(content).decode('ascii')
b64encode(b) ==
    IF b = <<>> THEN <<>>
    ELSE IF Len(b) = 1
         THEN <<B64Char(b[1] \div 4), B64Char((b[1] % 4) * 16), 61, 61>>
    ELSE IF Len(b) = 2
         THEN <<B64Char(b[1] \div 4), B64Char((b[1] % 4) * 16 + (b[2] \div 16)),
                B64Char((b[2] % 16) * 4), 61>>
    ELSE <<B64Char(b[1] \div 4), B64Char((b[1] % 4) * 16 + (b[2] \div 16)),
           B64Char((b[2] % 16) * 4 + (b[3] \div 64)), B64Char(b[3] % 64)>>
         \o b64encode(SubSeq(b, 4, Len(b)))

\* the allow-list of get_document_content:
\* .txt .csv .json .xml .html .md .js .css .py
TEXT_EXTENSIONS ==
    << <<46, 116, 120, 116>>, <<46, 99, 115, 118>>, <<46, 106, 115, 111, 110>>,
       <<46, 120, 109, 108>>, <<46, 104, 116, 109, 108>>, <<46, 109, 100>>,
       <<46, 106, 115>>, <<46, 99, 115, 115>>, <<46, 112, 121>> >>

\* a variant that compares the extension as it is written
is_text_file_cased(file_path) ==
    \E k \in 1..Len(TEXT_EXTENSIONS) : endswith(file_path, TEXT_EXTENSIONS[k])

is_text_file(file_path) ==
    \E k \in 1..Len(TEXT_EXTENSIONS) : endswith(lower(file_path), TEXT_EXTENSIONS[k])

-----------------------------------------------------------------------------
(* The remote drive: what the service answers to each request *)

Item(parent, name, kind, content) ==
    [parent |-> parent, name |-> name, kind |-> kind, content |-> content]

ItemPath(it) == JoinPath(it.parent, it.name)

\* index of the item addressed by path, 0 when there is none
IndexOf(d, path) ==
    IF \E i \in 1..Len(d) : ItemPath(d[i]) = path
    THEN CHOOSE i \in 1..Len(d) : ItemPath(d[i]) = path
    ELSE 0

IsFolder(d, path) ==
    path = <<>> \/ (IndexOf(d, path) > 0 /\ d[IndexOf(d, path)].kind = "folder")

IsFile(d, path) == IndexOf(d, path) > 0 /\ d[IndexOf(d, path)].kind = "file"

\* the item at path or an item below it
Under(it, path) ==
    \/ ItemPath(it) = path
    \/ it.parent = path
    \/ /\ Len(it.parent) > Len(path)
       /\ SubSeq(it.parent, 1, Len(path)) = path
       /\ it.parent[Len(path) + 1] = 47

\* the properties the service sends for an item
Properties(it) == [name |-> it.name, size |-> Len(it.content)]

ChildrenOf(d, path, kind) ==
    LET IsChild(it) == it.parent = path /\ it.kind = kind
        kids == SelectSeq(d, IsChild)
    IN [i \in 1..Len(kids) |-> Properties(kids[i])]

Answer(d, value) == [ok |-> TRUE, error |-> NoError, drive |-> d, value |-> value]

Refuse(d, msg) ==
    [ok |-> FALSE, error |-> [type |-> "RemoteError", msg |-> msg],
     drive |-> d, value |-> <<>>]

\* q = [kind, path, name, body].  A request either takes effect as asked or is
\* refused.
Remote(d, q) ==
    CASE q.kind \in {"me", "sites"} ->
           Answer(d, [id |-> "site-id"])
      [] q.kind = "get_folders" ->
           IF IsFolder(d, q.path) THEN Answer(d, ChildrenOf(d, q.path, "folder"))
           ELSE Refuse(d, "itemNotFound")
      [] q.kind = "get_files" ->
           IF IsFolder(d, q.path) THEN Answer(d, ChildrenOf(d, q.path, "file"))
           ELSE Refuse(d, "itemNotFound")
      [] q.kind = "create_folder" ->
           IF ~IsFolder(d, q.path) THEN Refuse(d, "itemNotFound")
           ELSE IF IndexOf(d, JoinPath(q.path, q.name)) = 0
                THEN Answer(Append(d, Item(q.path, q.name, "folder", <<>>)), <<>>)
           ELSE Refuse(d, "nameAlreadyExists")
      [] q.kind = "upload" ->
           IF ~IsFolder(d, q.path) THEN Refuse(d, "itemNotFound")
           ELSE LET i == IndexOf(d, JoinPath(q.path, q.name)) IN
                IF i = 0 THEN Answer(Append(d, Item(q.path, q.name, "file", q.body)), <<>>)
                ELSE IF d[i].kind = "file"
                     THEN Answer([d EXCEPT ![i].content = q.body], <<>>)
                ELSE Refuse(d, "nameAlreadyExists")
      [] q.kind = "get" ->
           IF q.path # <<>> /\ IndexOf(d, q.path) > 0
           THEN Answer(d, Properties(d[IndexOf(d, q.path)]))
           ELSE Refuse(d, "itemNotFound")
      [] q.kind = "download" ->
           IF IsFile(d, q.path) THEN Answer(d, d[IndexOf(d, q.path)].content)
           ELSE Refuse(d, "itemNotFound")
      [] q.kind = "delete" ->
           IF q.path # <<>> /\ IndexOf(d, q.path) > 0
           THEN LET Stays(it) == ~Under(it, q.path) IN Answer(SelectSeq(d, Stays), <<>>)
           ELSE Refuse(d, "itemNotFound")

\* dict.get(key): None when the key is missing
PropGet(props, key) == IF key \in DOMAIN props THEN props[key] ELSE "None"

Query(kind, path) == [kind |-> kind, path |-> path, name |-> <<>>, body |-> <<>>]

-----------------------------------------------------------------------------
(* One call of an operation.  x is the call's execution context: the        *)
(* connector's fields and the drive as the call has changed them so far,    *)
(* the requests it has issued, the exception it has raised (err), the last  *)
(* response (resp) and the value it returns (value).  A raised exception    *)
(* skips the rest of the call.  failAt is the position of the request that  *)
(* the network fails, 0 for none.                                           *)

Begin(failAt) ==
    [client |-> _client, site |-> _site_url, drive |-> drive, reqs |-> <<>>,
     err |-> NoError, resp |-> <<>>, value |-> <<>>,
     failAt |-> failAt,
     constructed |-> constructed, createdWith |-> createdWith]

Raise(x, type, msg) == [x EXCEPT !.err = [type |-> type, msg |-> msg]]

\* <query>.execute_query(): one request to the service; its error is raised as it is
Respond(x, q) ==
    IF x.failAt = Len(x.reqs) + 1 THEN Refuse(x.drive, "network")
    ELSE Remote(x.drive, q)

\* the request is logged with the session handle it was issued on
Issue(x, q, r) ==
    [x EXCEPT !.reqs = Append(@, [kind |-> q.kind, path |-> q.path,
                                  session |-> x.client.kind, ok |-> r.ok,
                                  error |-> r.error]),
              !.drive = r.drive,
              !.resp = r.value,
              !.err = r.error]

\* a variant that issues a failed request a second time
execute_query_retry(x, q) ==
    IF x.err # NoError THEN x
    ELSE IF Respond(x, q).ok THEN Issue(x, q, Respond(x, q))
    ELSE Issue(Issue(x, q, Respond(x, q)), q, Remote(x.drive, q))

execute_query(x, q) == IF x.err # NoError THEN x ELSE Issue(x, q, Respond(x, q))

\* a variant that reads the credential store when the callback runs
acquire_token_live(c) ==
    [access_token |-> store.access_token,
     refresh_token |-> store.refresh_token,
     token_type |-> "Bearer"]

\* the token callback of a session: the closure over the credentials of the
\* call that built it
acquire_token(c) ==
    [access_token |-> c.credentials.access_token,
     refresh_token |-> c.credentials.refresh_token,
     token_type |-> "Bearer"]

GraphClient(credentials) == [kind |-> "GraphClient", credentials |-> credentials]

\* the first-use branch of the client property
NewSession(x, credentials) ==
    [x EXCEPT !.client = GraphClient(credentials),
              !.constructed = @ + 1,
              !.createdWith = credentials]

SetSite(x) == IF x.err = NoError THEN [x EXCEPT !.site = PropGet(x.resp, "id")] ELSE x

\* a variant that caches the session only after both lookups
InitSessionLate(x, credentials) ==
    NewSession(SetSite(execute_query(execute_query(x, Query("me", <<>>)),
                                     Query("sites", <<>>))),
               credentials)

InitSession(x, credentials) ==
    SetSite(execute_query(execute_query(NewSession(x, credentials),
                                        Query("me", <<>>)),
                          Query("sites", <<>>)))

\* a variant that tests only for the integration and the credentials
CredentialErrorNoToken(credentials) ==
    IF ~integration THEN [type |-> "ValueError", msg |-> "Integration is required"]
    ELSE IF ~credentials.exists
         THEN [type |-> "ValueError", msg |-> "No credentials found"]
    ELSE NoError

\* the credential checks of the client property: the error they raise, if any
CredentialError(credentials) ==
    IF ~integration THEN [type |-> "ValueError", msg |-> "Integration is required"]
    ELSE IF ~credentials.exists
         THEN [type |-> "ValueError", msg |-> "No credentials found"]
    ELSE IF credentials.access_token \in {"None", ""}
         THEN [type |-> "ValueError", msg |-> "No access token found"]
    ELSE NoError

\* self.client
\* a variant without the "is None" test: every call builds a session
CheckedAlways(x, credentials, error) ==
    IF error # NoError THEN [x EXCEPT !.err = error]
    ELSE InitSession(x, credentials)

Checked(x, credentials, error) ==
    IF error # NoError THEN [x EXCEPT !.err = error]
    ELSE IF x.client = NoClient THEN InitSession(x, credentials)
    ELSE x

client(x) == IF x.err # NoError THEN x ELSE Checked(x, store, CredentialError(store))

Return(x, v) == IF x.err # NoError THEN x ELSE [x EXCEPT !.value = v]

-----------------------------------------------------------------------------
(* The six operations *)

_to_iso_optional(dt_obj) == IF dt_obj # "None" THEN <<"isoformat", dt_obj>> ELSE "None"

\* the folder an optional folder_path addresses: the root when it is None or ""
TargetFolder(folder_path) == IF Truthy(folder_path) THEN folder_path ELSE <<>>

FolderNamesOf(x) ==
    IF x.err # NoError THEN x
    ELSE [x EXCEPT !.value = [i \in 1..Len(x.resp) |-> PropGet(x.resp[i], "name")]]

list_folders(x, folder_path) ==
    FolderNamesOf(execute_query(client(x), Query("get_folders", TargetFolder(folder_path))))

\* a variant that creates the folder in the root whatever the path
create_folder_in_root(x, folder_name, folder_path) ==
    list_folders(execute_query(client(x), [kind |-> "create_folder",
                                           path |-> <<>>,
                                           name |-> folder_name, body |-> <<>>]),
                 folder_path)

create_folder(x, folder_name, folder_path) ==
    list_folders(execute_query(client(x), [kind |-> "create_folder",
                                           path |-> TargetFolder(folder_path),
                                           name |-> folder_name, body |-> <<>>]),
                 folder_path)

DocumentRecord(f) ==
    [name |-> f.name,
     url |-> PropGet(f, "ServerRelativeUrl"),
     size |-> PropGet(f, "Length"),
     created |-> _to_iso_optional(PropGet(f, "TimeCreated")),
     modified |-> _to_iso_optional(PropGet(f, "TimeLastModified"))]

DocumentRecordsOf(x) ==
    IF x.err # NoError THEN x
    ELSE [x EXCEPT !.value = [i \in 1..Len(x.resp) |-> DocumentRecord(x.resp[i])]]

list_documents(x, folder_path) ==
    DocumentRecordsOf(execute_query(client(x), Query("get_files", folder_path)))

\* the bytes an upload of io.StringIO(content) puts on the wire
UploadBody(content) == encode_utf8(content)

create_document(x, file_path, file_name, content) ==
    list_documents(execute_query(client(x), [kind |-> "upload", path |-> file_path,
                                             name |-> file_name,
                                             body |-> UploadBody(content)]),
                   file_path)

\* a variant that counts the characters of the decoded text
ContentSizeChars(content) ==
    IF decode_utf8(content).ok THEN Len(decode_utf8(content).text) ELSE Len(content)

\* the size field of a content record
ContentSize(content) == Len(content)

\* the record get_document_content builds from the downloaded bytes
ContentRecord(file_path, content) ==
    IF is_text_file(file_path)
    THEN [name |-> LastSegment(file_path), content_type |-> "text",
          content |-> decode_utf8(content).text, size |-> ContentSize(content)]
    ELSE [name |-> LastSegment(file_path), content_type |-> "binary",
          content_base64 |-> b64encode(content), size |-> ContentSize(content)]

ContentOf(x, file_path) ==
    IF x.err # NoError THEN x
    ELSE IF is_text_file(file_path) /\ ~decode_utf8(x.resp).ok
         THEN Raise(x, "UnicodeDecodeError", "invalid utf-8")
    ELSE Return(x, ContentRecord(file_path, x.resp))

get_document_content(x, file_path) ==
    ContentOf(execute_query(execute_query(client(x), Query("get", file_path)),
                            Query("download", file_path)),
              file_path)

\* a variant that reports success whatever the deletion did
delete_file_swallow(x, file_path) ==
    [execute_query(client(x), Query("delete", file_path))
        EXCEPT !.err = NoError, !.value = TRUE]

delete_file(x, file_path) ==
    Return(execute_query(client(x), Query("delete", file_path)), TRUE)

-----------------------------------------------------------------------------
(* Actions: one call of one operation, start to return or raise *)

Args(path, name, content) == [path |-> path, name |-> name, content |-> content]

Did(x, kind) == \E i \in 1..Len(x.reqs) : x.reqs[i].kind = kind /\ x.reqs[i].ok

Finish(x, op, args) ==
    /\ _client' = x.client
    /\ _site_url' = x.site
    /\ drive' = x.drive
    /\ reqs' = x.reqs
    /\ ret' = [op |-> op, args |-> args, ok |-> x.err = NoError, error |-> x.err,
               value |-> IF x.err = NoError THEN x.value ELSE <<>>]
    /\ constructed' = x.constructed
    /\ createdWith' = x.createdWith
    /\ made' = IF Did(x, "delete") THEN {}
               ELSE IF Did(x, "create_folder")
                    THEN made \cup {<<TargetFolder(args.path), args.name>>}
               ELSE made
    /\ gone' = IF Did(x, "upload") THEN {}
               ELSE IF Did(x, "delete") THEN gone \cup {args.path}
               ELSE gone
    /\ sent' = IF Did(x, "delete") THEN {}
               ELSE IF Did(x, "upload")
                    THEN {u \in sent : u[1] # JoinPath(args.path, args.name)}
                         \cup {<<JoinPath(args.path, args.name), args.content>>}
               ELSE sent
    /\ UNCHANGED <<integration, store>>

ListFolders(folder_path, failAt) ==
    Finish(list_folders(Begin(failAt), folder_path),
           "list_folders", Args(folder_path, <<>>, <<>>))

CreateFolder(folder_name, folder_path, failAt) ==
    /\ Len(drive) < MaxItems
    /\ Finish(create_folder(Begin(failAt), folder_name, folder_path),
              "create_folder", Args(folder_path, folder_name, <<>>))

ListDocuments(folder_path, failAt) ==
    Finish(list_documents(Begin(failAt), folder_path),
           "list_documents", Args(folder_path, <<>>, <<>>))

CreateDocument(file_path, file_name, content, failAt) ==
    /\ Len(drive) < MaxItems
    /\ Finish(create_document(Begin(failAt), file_path, file_name, content),
              "create_document", Args(file_path, file_name, content))

GetDocumentContent(file_path, failAt) ==
    Finish(get_document_content(Begin(failAt), file_path),
           "get_document_content", Args(file_path, <<>>, <<>>))

DeleteFile(file_path, failAt) ==
    Finish(delete_file(Begin(failAt), file_path),
           "delete_file", Args(file_path, <<>>, <<>>))

\* the credential store is outside the connector and may change between calls
CredentialChange(c) ==
    /\ integration
    /\ c # store
    /\ store' = c
    /\ UNCHANGED <<integration, _client, _site_url, drive, ret, reqs,
                   constructed, createdWith, made, gone, sent>>

-----------------------------------------------------------------------------
(* Inputs *)

FolderA == <<65>>

FolderB == <<66>>

\* "f.md"
FileMd == <<102, 46, 109, 100>>

\* "g"
FileBin == <<103>>

CredentialValues ==
    {NoCredentials, Credentials("None", "rt1"), Credentials("", "rt1"),
     Credentials("at1", "rt1"), Credentials("at2", "None")}

NoCall == [op |-> "None", args |-> Args(<<>>, <<>>, <<>>), ok |-> TRUE,
           error |-> NoError, value |-> <<>>]

\* the connector after __init__, before any call
Constructed ==
    /\ _client \in {NoClient, InjectedClient}
    /\ _site_url = "None"
    /\ ret = NoCall
    /\ reqs = <<>>
    /\ constructed = 0
    /\ createdWith = NoCredentials
    /\ made = {}
    /\ gone = {}
    /\ sent = {}

-----------------------------------------------------------------------------
(* Spec: the session, under every state of the credentials *)

Faults == 0..4

Init ==
    /\ integration \in BOOLEAN
    /\ store \in CredentialValues
    /\ drive = <<>>
    /\ Constructed

Next ==
    \/ \E p \in {None, <<>>, FolderA}, f \in Faults : ListFolders(p, f)
    \/ \E p \in {None, FolderA}, f \in Faults : CreateFolder(FolderA, p, f)
    \/ \E f \in Faults : ListDocuments(FolderA, f)
    \/ \E f \in Faults : CreateDocument(FolderA, FileMd, <<233>>, f)
    \/ \E f \in Faults : GetDocumentContent(JoinPath(FolderA, FileMd), f)
    \/ \E p \in {JoinPath(FolderA, FileMd), FolderA}, f \in Faults : DeleteFile(p, f)
    \/ \E c \in CredentialValues : CredentialChange(c)

Spec == Init /\ [][Next]_vars

-----------------------------------------------------------------------------
(* SpecDrive: folders and files of the drive, with valid credentials *)

DriveFaults == 0..2

GoodCredentials == Credentials("at1", "rt1")

InitDrive ==
    /\ integration = TRUE
    /\ store = GoodCredentials
    /\ drive = <<>>
    /\ Constructed

DrivePaths == {None, FolderA, FolderB}

DriveFiles == {JoinPath(FolderA, FileMd), FolderA, FolderB}

NextDrive ==
    \/ \E p \in DrivePaths, f \in DriveFaults : ListFolders(p, f)
    \/ \E n \in {FolderA, FolderB}, p \in DrivePaths, f \in DriveFaults :
          CreateFolder(n, p, f)
    \/ \E p \in {FolderA, FolderB}, f \in DriveFaults : ListDocuments(p, f)
    \/ \E p \in {FolderA, FolderB}, f \in DriveFaults :
          CreateDocument(p, FileMd, <<65>>, f)
    \/ \E p \in DriveFiles, f \in DriveFaults : GetDocumentContent(p, f)
    \/ \E p \in DriveFiles, f \in DriveFaults : DeleteFile(p, f)

SpecDrive == InitDrive /\ [][NextDrive]_vars

-----------------------------------------------------------------------------
(* SpecDocs: documents uploaded through the connector and read back *)

RECURSIVE SeqsUpTo(_, _)
SeqsUpTo(S, n) ==
    IF n = 0 THEN {<<>>}
    ELSE LET shorter == SeqsUpTo(S, n - 1) IN
         shorter \cup {Append(t, c) : t \in shorter, c \in S}

\* texts over "A" and the euro sign: 1 and 3 bytes of UTF-8
Texts == SeqsUpTo({65, 8364}, MaxLen)

\* "a.PY" and "g"
UploadNames == {<<97, 46, 80, 89>>, FileBin}

UploadPaths == {JoinPath(FolderA, n) : n \in UploadNames}

InitDocs ==
    /\ integration = TRUE
    /\ store = GoodCredentials
    /\ drive = <<Item(<<>>, FolderA, "folder", <<>>)>>
    /\ Constructed

NextDocs ==
    \/ \E n \in UploadNames, t \in Texts, f \in DriveFaults : CreateDocument(FolderA, n, t, f)
    \/ \E p \in UploadPaths, f \in DriveFaults : GetDocumentContent(p, f)
    \/ \E p \in UploadPaths : DeleteFile(p, 0)
    \/ ListDocuments(FolderA, 0)

SpecDocs == InitDocs /\ [][NextDocs]_vars

-----------------------------------------------------------------------------
(* SpecContent: get_document_content on a file put on the drive by another  *)
(* client, under any name and with any bytes                                *)

\* byte strings, well-formed UTF-8 and not
Blobs == SeqsUpTo({65, 195, 169, 255}, MaxLen)

\* "a.py" "a.PY" "apy" "a.p" ".md" "a.md.b" "y.Js" "g" "x.csv" "x.htm"
DocNames ==
    {<<97, 46, 112, 121>>, <<97, 46, 80, 89>>, <<97, 112, 121>>, <<97, 46, 112>>,
     <<46, 109, 100>>, <<97, 46, 109, 100, 46, 98>>, <<121, 46, 74, 115>>, FileBin,
     <<120, 46, 99, 115, 118>>, <<120, 46, 104, 116, 109>>}

DocPaths == {JoinPath(FolderA, n) : n \in DocNames}

InitContent ==
    /\ integration = TRUE
    /\ store = GoodCredentials
    /\ \E n \in DocNames, b \in Blobs :
          drive = <<Item(<<>>, FolderA, "folder", <<>>), Item(FolderA, n, "file", b)>>
    /\ Constructed

NextContent == \E p \in DocPaths, f \in DriveFaults : GetDocumentContent(p, f)

SpecContent == InitContent /\ [][NextContent]_vars

-----------------------------------------------------------------------------
(* Properties of the session (checked under Spec) *)

\* C1: every remote request of every operation is issued on a session: no
\* request is made while the cached session handle is absent.
C1_SessionBeforeRequest ==
    \A i \in 1..Len(reqs) : reqs[i].session # "None"

\* a first use: the call built the session, looked up user and site, then listed
C1_FirstUse ==
    /\ ret.op = "list_folders" /\ ret.ok
    /\ Len(reqs) = 3 /\ reqs[1].kind = "me" /\ reqs[1].session = "GraphClient"

\* C2 as stated: whenever a session built by the connector is cached, the
\* user and site lookups have succeeded and the site identifier is set.
C2_CachedSessionIsResolved ==
    _client.kind = "GraphClient" => _site_url # "None"

\* C3: the session is built at most once, never by the constructor and only by
\* a call that finds no session cached; a call that succeeds leaves a session
\* cached; a cached session is never replaced or cleared.
C3_LazyOnce ==
    /\ [](constructed <= 1 /\ (ret.op = "None" => constructed = 0))
    /\ [][/\ (_client # NoClient => _client' = _client)
          /\ (constructed' # constructed =>
                 /\ _client = NoClient
                 /\ _client'.kind = "GraphClient"
                 /\ constructed' = constructed + 1)
          /\ (ret'.op # "None" /\ ret'.ok => _client' # NoClient)]_vars

\* a later call that reused the session the connector built
C3_Reused ==
    /\ constructed = 1 /\ _client.kind = "GraphClient"
    /\ ret.ok /\ Len(reqs) = 1

NoValidCredential ==
    \/ ~integration
    \/ ~store.exists
    \/ store.access_token \in {"None", ""}

\* a step that is a call of list_folders (no call changes the credential store)
IsListFoldersCall == store' = store /\ ret'.op = "list_folders"

\* C4 as stated: list_folders fails with AuthenticationError when there is no
\* valid credential, and with NotFoundError when the path is invalid.
C4_AsStated ==
    [][IsListFoldersCall =>
         /\ (NoValidCredential =>
                /\ ~ret'.ok /\ ret'.error.type = "AuthenticationError"
                /\ reqs' = <<>> /\ _client' = _client)
         /\ (~IsFolder(drive, TargetFolder(ret'.args.path)) =>
                ~ret'.ok /\ ret'.error.type = "NotFoundError")]_vars

\* C4 amended: without a valid credential list_folders raises ValueError,
\* issues no request and leaves the cached session alone, whether or not a
\* session is cached; with a valid credential and an invalid path it raises
\* the error of the remote call as it is: the service's item-not-found, unless
\* an earlier request of the call failed on the network.
C4_ValueErrorAndRemoteError ==
    [][IsListFoldersCall =>
         /\ (NoValidCredential =>
                /\ ~ret'.ok /\ ret'.error.type = "ValueError"
                /\ reqs' = <<>> /\ _client' = _client /\ drive' = drive)
         /\ (~NoValidCredential /\ ~IsFolder(drive, TargetFolder(ret'.args.path)) =>
                /\ ~ret'.ok /\ ret'.error.type = "RemoteError"
                /\ ret'.error.msg \in {"itemNotFound", "network"}
                /\ (ret'.error.msg = "itemNotFound" <=>
                       reqs'[Len(reqs')].kind = "get_folders"
                       /\ reqs'[Len(reqs')].error.msg = "itemNotFound"))]_vars

\* list_folders refused for want of a token while a session is cached
C4_RefusedWithSession ==
    /\ ret.op = "list_folders" /\ ~ret.ok /\ ret.error.type = "ValueError"
    /\ ret.error.msg = "No access token found"
    /\ _client.kind = "GraphClient" /\ reqs = <<>>

\* C9: no retry and no recovery: within one call no request is issued twice,
\* a request that fails is the last request of the call, and the call then
\* ends with that request's error; a call that returns had no failed request.
C9_NoRetry ==
    /\ \A i, j \in 1..Len(reqs) :
          i # j => <<reqs[i].kind, reqs[i].path>> # <<reqs[j].kind, reqs[j].path>>
    /\ \A i \in 1..Len(reqs) :
          ~reqs[i].ok => i = Len(reqs) /\ ~ret.ok /\ ret.error = reqs[i].error
    /\ (ret.ok => \A i \in 1..Len(reqs) : reqs[i].ok)

\* a folder creation that failed and was not followed by the listing
C9_FailedCreation ==
    /\ ret.op = "create_folder" /\ ~ret.ok
    /\ Len(reqs) >= 1 /\ reqs[Len(reqs)].kind = "create_folder"
    /\ ~reqs[Len(reqs)].ok

CreatedToken ==
    [access_token |-> createdWith.access_token,
     refresh_token |-> createdWith.refresh_token,
     token_type |-> "Bearer"]

\* C10: the token callback of the cached session returns the tokens read by
\* the call that built the session, and no later step (a credential change, a
\* later call) changes what it returns.
C10_TokenFixedAtCreation ==
    /\ [](_client.kind = "GraphClient" => acquire_token(_client) = CreatedToken)
    /\ [][_client.kind = "GraphClient" =>
             acquire_token(_client') = acquire_token(_client)]_vars

\* a call served by the cached session after the credentials changed
C10_AfterChange ==
    /\ _client.kind = "GraphClient" /\ store # createdWith
    /\ CredentialError(store) = NoError
    /\ ret.ok /\ Len(reqs) = 1

-----------------------------------------------------------------------------
(* Properties of folders and files (checked under SpecDrive) *)

FolderNamesIn(d, path) ==
    LET kids == ChildrenOf(d, path, "folder") IN [i \in 1..Len(kids) |-> kids[i].name]

\* C6: a create_folder(X, path) that succeeds returns the listing of the
\* parent (the root when the path is absent) as it is after the creation, and
\* that listing, like every later successful list_folders of the parent with
\* no deletion in between, contains X.
C6_CreatedFolderListed ==
    /\ (ret.op \in {"list_folders", "create_folder"} /\ ret.ok =>
           \A m \in made :
              m[1] = TargetFolder(ret.args.path) => m[2] \in Range(ret.value))
    /\ (ret.op = "create_folder" /\ ret.ok =>
           /\ <<TargetFolder(ret.args.path), ret.args.name>> \in made
           /\ ret.value = FolderNamesIn(drive, TargetFolder(ret.args.path)))

\* a later listing of a folder other than the root in which a folder was created
C6_ListedLater ==
    /\ ret.op = "list_folders" /\ ret.ok /\ Len(reqs) = 1
    /\ \E m \in made : m[1] = TargetFolder(ret.args.path) /\ m[1] # <<>>

\* C7: after delete_file(path) returned true, a list_documents of the file's
\* folder with no upload in between has no record with the file's name; and
\* delete_file returns true only when the remote deletion succeeded.
C7_DeletedNotListed ==
    /\ (ret.op = "list_documents" /\ ret.ok =>
           \A g \in gone :
              ParentPath(g) = ret.args.path =>
                 \A i \in 1..Len(ret.value) : ret.value[i].name # LastSegment(g))
    /\ (ret.op = "delete_file" /\ ret.ok =>
           /\ ret.value = TRUE
           /\ Len(reqs) >= 1
           /\ reqs[Len(reqs)].kind = "delete" /\ reqs[Len(reqs)].ok
           /\ ret.args.path \in gone
           /\ IndexOf(drive, ret.args.path) = 0)

\* a listing of a folder from which a file was deleted
C7_ListedAfterDelete ==
    /\ ret.op = "list_documents" /\ ret.ok
    /\ \E g \in gone : ParentPath(g) = ret.args.path

-----------------------------------------------------------------------------
(* Properties of document content (checked under SpecDocs and SpecContent) *)

B64Value(c) ==
    IF c >= 65 /\ c <= 90 THEN c - 65
    ELSE IF c >= 97 /\ c <= 122 THEN c - 71
    ELSE IF c >= 48 /\ c <= 57 THEN c + 4
    ELSE IF c = 43 THEN 62
    ELSE 63

RECURSIVE B64Decode(_)
B64Decode(s) ==
    IF Len(s) < 4 THEN <<>>
    ELSE LET a == B64Value(s[1])
             b == B64Value(s[2])
             c == B64Value(s[3])
             d == B64Value(s[4])
         IN IF s[3] = 61 THEN <<a * 4 + (b \div 16)>>
            ELSE IF s[4] = 61 THEN <<a * 4 + (b \div 16), (b % 16) * 16 + (c \div 4)>>
            ELSE <<a * 4 + (b \div 16), (b % 16) * 16 + (c \div 4), (c % 4) * 64 + d>>
                 \o B64Decode(SubSeq(s, 5, Len(s)))

IsBase64Of(s, bytes) ==
    /\ Len(s) = 4 * ((Len(bytes) + 2) \div 3)
    /\ \A i \in 1..Len(s) :
          \/ s[i] \in (65..90) \cup (97..122) \cup (48..57) \cup {43, 47}
          \/ s[i] = 61 /\ i > Len(s) - 2 /\ (i < Len(s) => s[i + 1] = 61)
    /\ B64Decode(s) = bytes

\* the extension of a path: from its last "." on
Extension(path) ==
    IF \E i \in 1..Len(path) : path[i] = 46
    THEN SubSeq(path, CHOOSE i \in 1..Len(path) :
                         path[i] = 46 /\ \A j \in (i+1)..Len(path) : path[j] # 46,
                Len(path))
    ELSE <<>>

SameLetter(a, b) == a = b \/ (a >= 65 /\ a <= 90 /\ a + 32 = b)

\* .txt .csv .json .xml .html .md .js .css .py
AllowList ==
    {<<46, 116, 120, 116>>, <<46, 99, 115, 118>>, <<46, 106, 115, 111, 110>>,
     <<46, 120, 109, 108>>, <<46, 104, 116, 109, 108>>, <<46, 109, 100>>,
     <<46, 106, 115>>, <<46, 99, 115, 115>>, <<46, 112, 121>>}

HasTextExtension(path) ==
    \E e \in AllowList :
       /\ Len(Extension(path)) = Len(e)
       /\ \A i \in 1..Len(e) : SameLetter(Extension(path)[i], e[i])

IsLastSegmentOf(name, path) ==
    /\ \A i \in 1..Len(name) : name[i] # 47
    /\ Len(name) <= Len(path)
    /\ SubSeq(path, Len(path) - Len(name) + 1, Len(path)) = name
    /\ (Len(name) < Len(path) => path[Len(path) - Len(name)] = 47)

\* the record is the content record of these bytes under this path
IsContentRecordOf(rec, path, bytes) ==
    /\ IsLastSegmentOf(rec.name, path)
    /\ rec.size = Len(bytes)
    /\ IF HasTextExtension(path)
       THEN /\ DOMAIN rec = {"name", "content_type", "content", "size"}
            /\ rec.content_type = "text"
            /\ encode_utf8(rec.content) = bytes
       ELSE /\ DOMAIN rec = {"name", "content_type", "content_base64", "size"}
            /\ rec.content_type = "binary"
            /\ IsBase64Of(rec.content_base64, bytes)

\* C5: a file uploaded with create_document and read back with
\* get_document_content, nothing deleted in between, reads back: as the
\* uploaded text when its name has an allow-listed extension, else as the
\* base64 of the uploaded bytes; the size is the number of uploaded bytes; and
\* the read fails only for want of a credential or on a network failure.
C5_RoundTrip ==
    ret.op = "get_document_content" =>
       \A u \in sent :
          u[1] = ret.args.path =>
             /\ (~ret.ok =>
                    \/ ret.error.type = "ValueError"
                    \/ ret.error = [type |-> "RemoteError", msg |-> "network"])
             /\ (ret.ok =>
                    /\ IsContentRecordOf(ret.value, u[1], encode_utf8(u[2]))
                    /\ (ret.value.content_type = "text" => ret.value.content = u[2]))

\* a text file holding a euro sign, uploaded and read back
C5_ReadBack ==
    /\ ret.op = "get_document_content" /\ ret.ok
    /\ ret.value.content_type = "text"
    /\ \E u \in sent : u[1] = ret.args.path /\ 8364 \in Range(u[2])

\* C8: get_document_content tags a file text exactly when the extension of
\* its path, letter case aside, is on the allow-list; the record holds the
\* name (last path segment), the tag, the payload (the bytes decoded as UTF-8
\* for text, their base64 otherwise) and the size (the number of bytes).
C8_ContentRecord ==
    ret.op = "get_document_content" /\ ret.ok =>
       /\ IsFile(drive, ret.args.path)
       /\ IsContentRecordOf(ret.value, ret.args.path,
                            drive[IndexOf(drive, ret.args.path)].content)

\* a file with an upper-case extension, returned as text
C8_UpperCaseText ==
    /\ ret.op = "get_document_content" /\ ret.ok
    /\ ret.value.content_type = "text"
    /\ ret.value.name = <<97, 46, 80, 89>>
    /\ ret.value.size = MaxLen

====
